---- MODULE Spec2Model ----
(***************************************************************************)
(* Earning Analyst (src/App.tsx): ingestion of a monetization export,      *)
(* aggregation per video and per label, and the live filter recomputation. *)
(*                                                                         *)
(* Text is a sequence of one-character strings.  A JavaScript value is a   *)
(* record [k, s, n]: undefined, a string or a number.  A number is an      *)
(* integer count of 2^-ScaleBits currency units, kept to MantissaBits      *)
(* significant bits by RoundF after every arithmetic step: IEEE-754        *)
(* binary64 scaled down from 53 bits, round-to-nearest, ties-to-even.      *)
(* Infinity and NaN totals are outside the inputs drawn here.              *)
(***************************************************************************)
EXTENDS Integers, Sequences, FiniteSets, Bags, TLC

\* ------------------------------------------------------------------ bounds
\* significant bits of a number (53 in the program's binary64)
MantissaBits == 12
\* fractional bits of the smallest amount drawn (0.5 when 1)
ScaleBits == 1
\* rows of an uploaded file
MaxRows == 3
\* uploads in one run
MaxUploads == 1
\* entries of the history panel, counted from its top, that get clicked
MaxEntry == 1
\* requests sent to the model service before the user stops asking for more
MaxRequests == 1

\* pieces a description is put together from
MaxPieces == 4

\* binary digits a quotient keeps below the smallest amount
QuotientBits == 2

\* ------------------------------------------------------------------ numbers
RECURSIVE Pow(_, _)
Pow(b, e) == IF e = 0 THEN 1 ELSE b * Pow(b, e - 1)

Abs(x) == IF x < 0 THEN -x ELSE x

RECURSIVE BitLen(_)
BitLen(n) == IF n = 0 THEN 0 ELSE 1 + BitLen(n \div 2)

\* q-multiple nearest to the natural number m, ties to the even multiple
NearestMultiple(m, q) ==
    LET lo == (m \div q) * q
        r  == m - lo
    IN  IF 2 * r < q THEN lo
        ELSE IF 2 * r > q THEN lo + q
        ELSE IF (m \div q) % 2 = 0 THEN lo ELSE lo + q

\* the representable number nearest to x
RoundF(x) ==
    LET m == Abs(x)
        e == BitLen(m) - MantissaBits
        r == IF e <= 0 THEN m ELSE NearestMultiple(m, Pow(2, e))
    IN  IF x < 0 THEN -r ELSE r

\* a + b of two numbers
FAdd(a, b) == RoundF(a + b)

\* the amount 1.0, and the program's low-earning threshold
One == Pow(2, ScaleBits)

\* the multiple of step nearest to num / den, ties to the even multiple
NearestToRatio(num, den, step) ==
    LET k == num \div (den * step)
        r == num - k * den * step
    IN  IF 2 * r < den * step THEN k * step
        ELSE IF 2 * r > den * step THEN (k + 1) * step
        ELSE IF k % 2 = 0 THEN k * step ELSE (k + 1) * step

\* a / n of an amount a and a count n > 0: the representable number nearest
\* to the quotient, in units of 2^-QuotientBits of the smallest amount
FDiv(a, n) ==
    LET num  == Abs(a) * Pow(2, QuotientBits)
        e    == BitLen(num \div n) - MantissaBits
        near == NearestToRatio(num, n, IF e <= 0 THEN 1 ELSE Pow(2, e))
    IN  IF a < 0 THEN -near ELSE near

\* the representable number nearest to num / den, for den > 0
FRatio(num, den) ==
    LET e    == BitLen(Abs(num) \div den) - MantissaBits
        near == NearestToRatio(Abs(num), den, IF e <= 0 THEN 1 ELSE Pow(2, e))
    IN  IF num < 0 THEN -near ELSE near

\* numbers.reduce((a, b) => a + b, acc)
RECURSIVE SumNumbers(_, _)
SumNumbers(numbers, acc) ==
    IF numbers = <<>> THEN acc
    ELSE SumNumbers(Tail(numbers), FAdd(acc, Head(numbers)))

\* ------------------------------------------------------------------ text
Digits == {"0", "1", "2", "3", "4", "5", "6", "7", "8", "9"}

DigitVal(c) ==
    CASE c = "0" -> 0 [] c = "1" -> 1 [] c = "2" -> 2 [] c = "3" -> 3
      [] c = "4" -> 4 [] c = "5" -> 5 [] c = "6" -> 6 [] c = "7" -> 7
      [] c = "8" -> 8 [] c = "9" -> 9

RECURSIVE TrimStart(_)
TrimStart(s) == IF s # <<>> /\ Head(s) = " " THEN TrimStart(Tail(s)) ELSE s

RECURSIVE TrimEnd(_)
TrimEnd(s) ==
    IF s # <<>> /\ s[Len(s)] = " " THEN TrimEnd(SubSeq(s, 1, Len(s) - 1)) ELSE s

\* String.prototype.trim
Trim(s) == TrimEnd(TrimStart(s))

\* val.replace(/,/g, '')
StripCommas(s) == SelectSeq(s, LAMBDA c : c # ",")

\* the longest prefix of s made of digits
RECURSIVE DigitPrefix(_)
DigitPrefix(s) ==
    IF s # <<>> /\ Head(s) \in Digits THEN <<Head(s)>> \o DigitPrefix(Tail(s))
    ELSE <<>>

RECURSIVE DigitsValue(_, _)
DigitsValue(ds, acc) ==
    IF ds = <<>> THEN acc ELSE DigitsValue(Tail(ds), 10 * acc + DigitVal(Head(ds)))

\* ------------------------------------------------------------------ values
Undefined == [k |-> "undefined", s |-> <<>>, n |-> 0]
Str(s) == [k |-> "string", s |-> s, n |-> 0]
Num(n) == [k |-> "number", s |-> <<>>, n |-> n]

\* JavaScript truthiness of a value
Truthy(v) ==
    \/ v.k = "string" /\ v.s # <<>>
    \/ v.k = "number" /\ v.n # 0

\* a || b
OrElse(a, b) == IF Truthy(a) THEN a ELSE b

\* v?.trim()
OptTrim(v) == IF v.k = "string" THEN Str(Trim(v.s)) ELSE Undefined

\* parseFloat: leading blanks, a sign, digits, a fraction; the longest such
\* prefix, NaN when it holds no digit.  The decimal is rounded to the nearest
\* representable number.
ParseFloat(s) ==
    LET t    == TrimStart(s)
        neg  == t # <<>> /\ Head(t) = "-"
        u    == IF t # <<>> /\ Head(t) \in {"-", "+"} THEN Tail(t) ELSE t
        ip   == DigitPrefix(u)
        v    == SubSeq(u, Len(ip) + 1, Len(u))
        fp   == IF v # <<>> /\ Head(v) = "." THEN DigitPrefix(Tail(v)) ELSE <<>>
        den  == Pow(10, Len(fp))
        num  == DigitsValue(ip \o fp, 0) * One
        mag  == RoundF(NearestMultiple(num, den) \div den)
    IN  IF ip = <<>> /\ fp = <<>> THEN [nan |-> TRUE, v |-> 0]
        ELSE [nan |-> FALSE, v |-> IF neg THEN -mag ELSE mag]

parseEarning(val) ==
    IF val.k = "undefined" \/ (val.k = "string" /\ val.s = <<>>) THEN 0
    ELSE IF val.k = "number" THEN val.n
    ELSE LET p == ParseFloat(StripCommas(val.s)) IN IF p.nan THEN 0 ELSE p.v

\* ------------------------------------------------------------------ hashtags
LowerLetters == {"a", "b", "c", "d", "x"}
UpperLetters == {"A", "B", "C", "D", "X"}

\* String.prototype.toLowerCase, one character
LowerChar(c) ==
    CASE c = "A" -> "a" [] c = "B" -> "b" [] c = "C" -> "c" [] c = "D" -> "d"
      [] c = "X" -> "x" [] OTHER -> c

ToLowerCase(s) == [i \in 1..Len(s) |-> LowerChar(s[i])]

\* [\p{L}\p{N}_]
IsWordChar(c) == c \in LowerLetters \cup UpperLetters \cup Digits \cup {"_"}

RECURSIVE WordPrefix(_)
WordPrefix(s) ==
    IF s # <<>> /\ IsWordChar(Head(s)) THEN <<Head(s)>> \o WordPrefix(Tail(s))
    ELSE <<>>

\* text.match(/#[\p{L}\p{N}_]+/gu): the matches, left to right
RECURSIVE HashtagMatches(_)
HashtagMatches(s) ==
    IF s = <<>> THEN <<>>
    ELSE IF Head(s) = "#" /\ WordPrefix(Tail(s)) # <<>>
         THEN LET w == WordPrefix(Tail(s))
              IN  <<(<<"#">> \o w)>> \o HashtagMatches(SubSeq(s, Len(w) + 2, Len(s)))
         ELSE HashtagMatches(Tail(s))

Includes(seq, x) == \E i \in 1..Len(seq) : seq[i] = x

\* Array.from(new Set(seq)): first occurrences, in order
RECURSIVE Dedupe(_, _)
Dedupe(seq, acc) ==
    IF seq = <<>> THEN acc
    ELSE Dedupe(Tail(seq), IF Includes(acc, Head(seq)) THEN acc ELSE Append(acc, Head(seq)))

\* an extraction that keeps the case of the matches
EH_KeepCase(text) ==
    IF text = <<>> THEN <<>> ELSE Dedupe(HashtagMatches(text), <<>>)

extractHashtags(text) ==
    IF text = <<>> THEN <<>>
    ELSE Dedupe([i \in 1..Len(HashtagMatches(text)) |-> ToLowerCase(HashtagMatches(text)[i])], <<>>)

\* UTF-16 code unit of a character
CharCode(c) ==
    CASE c = " " -> 32 [] c = "#" -> 35 [] c = "+" -> 43 [] c = "," -> 44
      [] c = "-" -> 45 [] c = "." -> 46 [] c = "/" -> 47
      [] c \in Digits -> 48 + DigitVal(c)
      [] c = "A" -> 65 [] c = "B" -> 66 [] c = "C" -> 67 [] c = "D" -> 68
      [] c = "X" -> 88 [] c = "_" -> 95
      [] c = "a" -> 97 [] c = "b" -> 98 [] c = "c" -> 99 [] c = "d" -> 100
      [] c = "x" -> 120 [] OTHER -> 127

\* a < b as Array.prototype.sort compares strings by default
RECURSIVE StrLess(_, _)
StrLess(a, b) ==
    IF b = <<>> THEN FALSE
    ELSE IF a = <<>> THEN TRUE
    ELSE IF Head(a) # Head(b) THEN CharCode(Head(a)) < CharCode(Head(b))
    ELSE StrLess(Tail(a), Tail(b))

\* x placed in a sequence sorted ascending, after the entries not above it
RECURSIVE InsertString(_, _)
InsertString(sorted, x) ==
    IF sorted = <<>> THEN <<x>>
    ELSE IF StrLess(x, Head(sorted)) THEN <<x>> \o sorted
    ELSE <<Head(sorted)>> \o InsertString(Tail(sorted), x)

RECURSIVE SortStringsFrom(_, _)
SortStringsFrom(seq, acc) ==
    IF seq = <<>> THEN acc
    ELSE SortStringsFrom(Tail(seq), InsertString(acc, Head(seq)))

\* Array.prototype.sort() of strings
SortStrings(seq) == SortStringsFrom(seq, <<>>)

\* an insertion that places x before its equals
RECURSIVE ID_BeforeEquals(_, _)
ID_BeforeEquals(sorted, x) ==
    IF sorted = <<>> THEN <<x>>
    ELSE IF x.totalEarning >= Head(sorted).totalEarning THEN <<x>> \o sorted
    ELSE <<Head(sorted)>> \o ID_BeforeEquals(Tail(sorted), x)

\* x placed in a sequence sorted by totalEarning descending, after its equals:
\* (a, b) => b.totalEarning - a.totalEarning, stable
RECURSIVE InsertDescending(_, _)
InsertDescending(sorted, x) ==
    IF sorted = <<>> THEN <<x>>
    ELSE IF x.totalEarning > Head(sorted).totalEarning THEN <<x>> \o sorted
    ELSE <<Head(sorted)>> \o InsertDescending(Tail(sorted), x)

RECURSIVE SortDescendingFrom(_, _)
SortDescendingFrom(seq, acc) ==
    IF seq = <<>> THEN acc
    ELSE SortDescendingFrom(Tail(seq), InsertDescending(acc, Head(seq)))

\* .sort((a, b) => b.totalEarning - a.totalEarning)
SortDescending(seq) == SortDescendingFrom(seq, <<>>)

\* ------------------------------------------------------------------ dates
\* the decimal digits of a natural number
RECURSIVE NatText(_)
NatText(n) ==
    LET d == <<"0", "1", "2", "3", "4", "5", "6", "7", "8", "9">>[(n % 10) + 1]
    IN  IF n < 10 THEN <<d>> ELSE NatText(n \div 10) \o <<d>>

\* new Date(dateStr).getTime() for a date-only ISO text YYYY-MM-DD, counted in
\* days; the texts drawn here are such dates with a day up to 28, or no date at
\* all (an Invalid Date, NaN)
DateTime(s) ==
    LET shaped == /\ Len(s) = 10
                  /\ s[5] = "-" /\ s[8] = "-"
                  /\ \A i \in {1, 2, 3, 4, 6, 7, 9, 10} : s[i] \in Digits
        y == DigitsValue(SubSeq(s, 1, 4), 0)
        m == DigitsValue(SubSeq(s, 6, 7), 0)
        d == DigitsValue(SubSeq(s, 9, 10), 0)
    IN  IF shaped /\ m \in 1..12 /\ d \in 1..28
        THEN [nan |-> FALSE, t |-> (y * 12 + (m - 1)) * 31 + (d - 1)]
        ELSE [nan |-> TRUE, t |-> 0]

\* d.toLocaleDateString('vi-VN'): day/month/year
formatDate(t) ==
    NatText((t % 31) + 1) \o <<"/">> \o NatText(((t \div 31) % 12) + 1)
        \o <<"/">> \o NatText(t \div (31 * 12))

RECURSIVE MinOf(_)
MinOf(seq) ==
    IF Len(seq) = 1 THEN seq[1]
    ELSE LET m == MinOf(Tail(seq)) IN IF Head(seq) < m THEN Head(seq) ELSE m

RECURSIVE MaxOf(_)
MaxOf(seq) ==
    IF Len(seq) = 1 THEN seq[1]
    ELSE LET m == MaxOf(Tail(seq)) IN IF Head(seq) > m THEN Head(seq) ELSE m

\* ------------------------------------------------------------------ rows
\* the column names the program reads (in ASCII)
ColTitleVN == "Tieu de"
ColTitleEN == "Title"
ColLabelVN == "Nhan tuy chinh"
ColLabelEN == "Custom labels"
ColEarnVN  == "Thu nhap uoc tinh khi tham gia chuong trinh kiem tien tu noi dung"
ColEarnEN  == "Approximate content monetization earnings"
ColDateVN  == "Ngay"
ColDateEN  == "Date"
ColPostId  == "Post ID"
ColAssetEN == "Video asset ID"
ColAssetVN == "ID tai san video"
ColDescEN  == "Description"
ColDescVN  == "Mo ta"

Columns ==
    {ColTitleVN, ColTitleEN, ColLabelVN, ColLabelEN, ColEarnVN, ColEarnEN,
     ColDateVN, ColDateEN, ColPostId, ColAssetEN, ColAssetVN, ColDescEN, ColDescVN}

\* "Khong co nhan", the label of a row that has none
NoLabel == <<"K", "h", "o", "n", "g", " ", "c", "o", " ", "n", "h", "a", "n">>

\* the cell of a row under a column; a column the row lacks reads undefined
Cell(row, col) == IF col \in DOMAIN row THEN row[col] ELSE Undefined

\* `${title}-${label}`
VideoKey(title, label) == title \o <<"-">> \o label

\* index of the entry of a Map (a sequence of entries in insertion order)
\* under key, 0 when the Map lacks it
MapIndex(map, key) ==
    IF \E i \in 1..Len(map) : map[i].key = key
    THEN CHOOSE i \in 1..Len(map) : map[i].key = key
    ELSE 0

\* existing.hashtags after pushing the tags of rowHashtags it lacks
RECURSIVE PushMissing(_, _)
PushMissing(hashtags, rowHashtags) ==
    IF rowHashtags = <<>> THEN hashtags
    ELSE PushMissing(IF Includes(hashtags, Head(rowHashtags)) THEN hashtags
                     ELSE Append(hashtags, Head(rowHashtags)),
                     Tail(rowHashtags))

EmptyMaps == [videoMap |-> <<>>, labelMap |-> <<>>, hashtagSet |-> <<>>, dates |-> <<>>]

\* the fields rows.forEach reads from a row, before it touches the maps
NormalizedRow(row) ==
    [title       |-> OptTrim(OrElse(Cell(row, ColTitleVN), Cell(row, ColTitleEN))),
     labelCell   |-> OptTrim(OrElse(Cell(row, ColLabelVN), Cell(row, ColLabelEN))),
     assetId     |-> OptTrim(OrElse(OrElse(Cell(row, ColPostId), Cell(row, ColAssetEN)),
                                    Cell(row, ColAssetVN))),
     dateStr     |-> OptTrim(OrElse(Cell(row, ColDateVN), Cell(row, ColDateEN))),
     rowHashtags |-> extractHashtags(
                         OrElse(OrElse(Cell(row, ColDescEN), Cell(row, ColDescVN)),
                                Str(<<>>)).s),
     earning     |-> FAdd(parseEarning(Cell(row, ColEarnVN)),
                          parseEarning(Cell(row, ColEarnEN)))]

\* label: the trimmed label cell, or "Khong co nhan"
LabelOf(n) == IF Truthy(n.labelCell) THEN n.labelCell.s ELSE NoLabel

\* dates after the row: its date is pushed when it parses
PushDate(dates, dateStr) ==
    IF Truthy(dateStr) /\ ~DateTime(dateStr.s).nan
    THEN Append(dates, DateTime(dateStr.s).t)
    ELSE dates

\* a merge that overwrites the total with the row's earning instead of adding
MV_Overwrite(existing, n) ==
    [existing EXCEPT
        !.totalEarning = n.earning,
        !.assetId = IF ~Truthy(existing.assetId) /\ Truthy(n.assetId)
                    THEN n.assetId ELSE existing.assetId,
        !.hashtags = PushMissing(existing.hashtags, n.rowHashtags)]

\* a merge that takes the date of a later row while the video has none
MV_FillDate(existing, n) ==
    [existing EXCEPT
        !.totalEarning = FAdd(existing.totalEarning, n.earning),
        !.assetId = IF ~Truthy(existing.assetId) /\ Truthy(n.assetId)
                    THEN n.assetId ELSE existing.assetId,
        !.date = IF ~Truthy(existing.date) /\ Truthy(n.dateStr)
                 THEN n.dateStr ELSE existing.date,
        !.hashtags = PushMissing(existing.hashtags, n.rowHashtags)]

\* a merge that takes the identifier of every row that has one
MV_LastId(existing, n) ==
    [existing EXCEPT
        !.totalEarning = FAdd(existing.totalEarning, n.earning),
        !.assetId = IF Truthy(n.assetId) THEN n.assetId ELSE existing.assetId,
        !.hashtags = PushMissing(existing.hashtags, n.rowHashtags)]

\* the video found under the row's key, after the row is merged into it
MergeVideo(existing, n) ==
    [existing EXCEPT
        !.totalEarning = FAdd(existing.totalEarning, n.earning),
        !.assetId = IF ~Truthy(existing.assetId) /\ Truthy(n.assetId)
                    THEN n.assetId ELSE existing.assetId,
        !.hashtags = PushMissing(existing.hashtags, n.rowHashtags)]

\* videoMap after the row, vi the index of its key in it (0: a new key)
PutVideo(videoMap, vi, key, label, n) ==
    IF vi # 0
    THEN [videoMap EXCEPT ![vi].v = MergeVideo(videoMap[vi].v, n)]
    ELSE Append(videoMap,
                [key |-> key,
                 v |-> [title |-> n.title.s, label |-> label,
                        totalEarning |-> n.earning, assetId |-> n.assetId,
                        date |-> n.dateStr, hashtags |-> n.rowHashtags]])

\* labelMap (the label is in it at li) after the row's earning and title
AddToLabel(labelMap, li, n) ==
    [labelMap EXCEPT ![li].total = FAdd(labelMap[li].total, n.earning),
                     ![li].count = labelMap[li].count \cup {n.title.s}]

\* labelMap with an empty entry for the label when it has none
EnsureLabel(labelMap, label) ==
    IF MapIndex(labelMap, label) # 0 THEN labelMap
    ELSE Append(labelMap, [key |-> label, total |-> 0, count |-> {}])

\* labelMap after the row
PutLabel(labelMap, label, n) == AddToLabel(labelMap, MapIndex(labelMap, label), n)

\* a row step that returns on a missing title before it reads the date
AC_TitledOnly(acc, n, label, key) ==
    IF ~Truthy(n.title) THEN acc
    ELSE [videoMap   |-> PutVideo(acc.videoMap, MapIndex(acc.videoMap, key), key, label, n),
          labelMap   |-> PutLabel(EnsureLabel(acc.labelMap, label), label, n),
          hashtagSet |-> PushMissing(acc.hashtagSet, n.rowHashtags),
          dates      |-> PushDate(acc.dates, n.dateStr)]

\* a row step that collects the hashtags of a row before it looks at the
\* title
AC_TagsFirst(acc, n, label, key) ==
    IF ~Truthy(n.title)
    THEN [acc EXCEPT !.dates = PushDate(acc.dates, n.dateStr),
                     !.hashtagSet = PushMissing(acc.hashtagSet, n.rowHashtags)]
    ELSE [videoMap   |-> PutVideo(acc.videoMap, MapIndex(acc.videoMap, key), key, label, n),
          labelMap   |-> PutLabel(EnsureLabel(acc.labelMap, label), label, n),
          hashtagSet |-> PushMissing(acc.hashtagSet, n.rowHashtags),
          dates      |-> PushDate(acc.dates, n.dateStr)]

\* the maps after a row with the fields n, keyed by key
Accumulate(acc, n, label, key) ==
    IF ~Truthy(n.title) THEN [acc EXCEPT !.dates = PushDate(acc.dates, n.dateStr)]
    ELSE [videoMap   |-> PutVideo(acc.videoMap, MapIndex(acc.videoMap, key), key, label, n),
          labelMap   |-> PutLabel(EnsureLabel(acc.labelMap, label), label, n),
          hashtagSet |-> PushMissing(acc.hashtagSet, n.rowHashtags),
          dates      |-> PushDate(acc.dates, n.dateStr)]

\* the maps after a row with the fields n
AccumulateRow(acc, n, label) == Accumulate(acc, n, label, VideoKey(n.title.s, label))

\* one pass of rows.forEach: the maps after the row
RowStep(acc, row) == AccumulateRow(acc, NormalizedRow(row), LabelOf(NormalizedRow(row)))

\* rows.forEach(...): the maps after all rows
RECURSIVE FoldRows(_, _)
FoldRows(acc, rows) ==
    IF rows = <<>> THEN acc ELSE FoldRows(RowStep(acc, Head(rows)), Tail(rows))

\* seq.reduce((acc, curr) => acc + curr.totalEarning, 0)
RECURSIVE SumEarnings(_, _)
SumEarnings(seq, acc) ==
    IF seq = <<>> THEN acc
    ELSE SumEarnings(Tail(seq), FAdd(acc, Head(seq).totalEarning))

\* a count that takes the videos worth exactly 1 as low
LC_UpToOne(videos) == Cardinality({i \in 1..Len(videos) : videos[i].totalEarning <= One})

\* videos.filter(v => v.totalEarning < 1).length
LowCount(videos) == Cardinality({i \in 1..Len(videos) : videos[i].totalEarning < One})

\* a header check that knows the identifier column by its first name only
MC_PostIdOnly(headers) ==
    LET hasPostId      == \E i \in 1..Len(headers) : headers[i] = ColPostId
        hasDescription == \E i \in 1..Len(headers) : headers[i] \in {ColDescEN, ColDescVN}
    IN  (IF hasPostId THEN <<>> ELSE <<"Post ID / ID tai san video">>)
        \o (IF hasDescription THEN <<>> ELSE <<"Description / Mo ta">>)

\* the missing-columns warnings of a header
MissingColumns(headers) ==
    LET hasPostId      == \E i \in 1..Len(headers) :
                              headers[i] \in {ColPostId, ColAssetEN, ColAssetVN}
        hasDescription == \E i \in 1..Len(headers) : headers[i] \in {ColDescEN, ColDescVN}
    IN  (IF hasPostId THEN <<>> ELSE <<"Post ID / ID tai san video">>)
        \o (IF hasDescription THEN <<>> ELSE <<"Description / Mo ta">>)

Null == [k |-> "null", s |-> <<>>, n |-> 0]

\* the label summaries of labelMap, unsorted
SummariesOf(labelMap) ==
    [i \in 1..Len(labelMap) |->
        [label        |-> labelMap[i].key,
         totalEarning |-> labelMap[i].total,
         videoCount   |-> Cardinality(labelMap[i].count)]]

\* startDate or endDate: the formatted bound, undefined without dates
DateBound(dates, t) == IF Len(dates) > 0 THEN Str(formatDate(t)) ELSE Undefined

\* newResult, from the sorted videos and label summaries
NewResult(videoEarnings, labelSummaries, maps, headers, currentFileName, id, now) ==
    [id              |-> id,
     fileName        |-> currentFileName,
     timestamp       |-> now,
     videoEarnings   |-> videoEarnings,
     labelSummaries  |-> labelSummaries,
     grandTotal      |-> SumEarnings(labelSummaries, 0),
     lowEarningCount |-> LowCount(videoEarnings),
     startDate       |-> DateBound(maps.dates, MinOf(maps.dates)),
     endDate         |-> DateBound(maps.dates, MaxOf(maps.dates)),
     allHashtags     |-> SortStrings(maps.hashtagSet),
     aiInsight       |-> Null,
     missingColumns  |-> MissingColumns(headers)]

\* the result processCSV builds from the maps
ResultOf(maps, headers, currentFileName, id, now) ==
    NewResult(SortDescending([i \in 1..Len(maps.videoMap) |-> maps.videoMap[i].v]),
              SortDescending(SummariesOf(maps.labelMap)),
              maps, headers, currentFileName, id, now)

\* the AnalysisResult processCSV builds from a parsed file
BuildResult(results, currentFileName, id, now) ==
    ResultOf(FoldRows(EmptyMaps, results.data), results.fields, currentFileName, id, now)

\* ------------------------------------------------------------------ filter
\* seq.filter(keep), for the keep predicates of filteredData
KeepSelected(labels, selected) ==
    SelectSeq(labels, LAMBDA l : Includes(selected, l.label))

KeepEarning(seq) == SelectSeq(seq, LAMBDA x : x.totalEarning >= One)

LabelNames(labels) == [i \in 1..Len(labels) |-> labels[i].label]

\* working labels that never drop the low labels
WL_IgnoreHide(d, selLabels, hideLabels) == KeepSelected(d.labelSummaries, selLabels)

\* workingLabels: the selected labels, without the low ones when they are hidden
WorkingLabels(d, selLabels, hideLabels) ==
    IF hideLabels THEN KeepEarning(KeepSelected(d.labelSummaries, selLabels))
    ELSE KeepSelected(d.labelSummaries, selLabels)

\* a hashtag step that asks for every selected tag
KT_Every(videos, selHashtags) ==
    SelectSeq(videos, LAMBDA v :
        \A i \in 1..Len(selHashtags) : Includes(v.hashtags, selHashtags[i]))

\* videos.filter(v => selectedHashtags.some(tag => v.hashtags.includes(tag)))
KeepTagged(videos, selHashtags) ==
    SelectSeq(videos, LAMBDA v :
        \E i \in 1..Len(selHashtags) : Includes(v.hashtags, selHashtags[i]))

\* a label step that reads an empty list of labels as "no restriction"
KL_EmptyMeansAll(videos, labelNamesToInclude) ==
    IF labelNamesToInclude = <<>> THEN videos
    ELSE SelectSeq(videos, LAMBDA v : Includes(labelNamesToInclude, v.label))

\* videos.filter(v => labelNamesToInclude.includes(v.label))
KeepLabelled(videos, labelNamesToInclude) ==
    SelectSeq(videos, LAMBDA v : Includes(labelNamesToInclude, v.label))

\* a low-earning step with the flag read the wrong way round
FV_Inverted(ofLabels, selHashtags, hideVideos) ==
    IF ~hideVideos
    THEN KeepEarning(IF Len(selHashtags) > 0 THEN KeepTagged(ofLabels, selHashtags)
                     ELSE ofLabels)
    ELSE IF Len(selHashtags) > 0 THEN KeepTagged(ofLabels, selHashtags) ELSE ofLabels

\* the hashtag and low-earning steps on the videos of the working labels
FilterVideos(ofLabels, selHashtags, hideVideos) ==
    IF hideVideos
    THEN KeepEarning(IF Len(selHashtags) > 0 THEN KeepTagged(ofLabels, selHashtags)
                     ELSE ofLabels)
    ELSE IF Len(selHashtags) > 0 THEN KeepTagged(ofLabels, selHashtags) ELSE ofLabels

\* a recomputation that adds the videos to the total the label already has
RL_Accumulate(l, videosForThisLabel) ==
    [l EXCEPT !.totalEarning = SumEarnings(videosForThisLabel, l.totalEarning),
              !.videoCount   = Len(videosForThisLabel)]

\* a recomputation that recounts the videos and keeps the label's base total
RL_KeepTotal(l, videosForThisLabel) ==
    [l EXCEPT !.videoCount = Len(videosForThisLabel)]

\* {...l, totalEarning, videoCount} from the videos of label l that are left
RecomputedLabel(l, videosForThisLabel) ==
    [l EXCEPT !.totalEarning = SumEarnings(videosForThisLabel, 0),
              !.videoCount   = Len(videosForThisLabel)]

\* final labels that drop the labels without earnings, not those without
\* videos
FL_ByTotal(workingLabels, filteredVideos) ==
    SortDescending(SelectSeq(
        [i \in 1..Len(workingLabels) |->
            RecomputedLabel(workingLabels[i],
                SelectSeq(filteredVideos, LAMBDA v : v.label = workingLabels[i].label))],
        LAMBDA l : l.totalEarning > 0))

\* finalLabels: the working labels recomputed, the empty ones dropped, sorted
FinalLabels(workingLabels, filteredVideos) ==
    SortDescending(SelectSeq(
        [i \in 1..Len(workingLabels) |->
            RecomputedLabel(workingLabels[i],
                SelectSeq(filteredVideos, LAMBDA v : v.label = workingLabels[i].label))],
        LAMBDA l : l.videoCount > 0))

\* a filtered result that keeps the grand total of the base result
FR_KeepGrandTotal(d, finalLabels, filteredVideos) ==
    [d EXCEPT !.labelSummaries  = finalLabels,
              !.videoEarnings   = filteredVideos,
              !.lowEarningCount = LowCount(filteredVideos)]

\* {...data, labelSummaries, videoEarnings, grandTotal, lowEarningCount}
FilteredResult(d, finalLabels, filteredVideos) ==
    [d EXCEPT !.labelSummaries  = finalLabels,
              !.videoEarnings   = filteredVideos,
              !.grandTotal      = SumEarnings(finalLabels, 0),
              !.lowEarningCount = LowCount(filteredVideos)]

\* the filtered result from the working labels and the videos left
RecomputeWith(d, workingLabels, filteredVideos) ==
    FilteredResult(d, FinalLabels(workingLabels, filteredVideos), filteredVideos)

\* the filtered result from the working labels
RecomputeFrom(d, workingLabels, selHashtags, hideVideos) ==
    RecomputeWith(d, workingLabels,
        FilterVideos(KeepLabelled(d.videoEarnings, LabelNames(workingLabels)),
                     selHashtags, hideVideos))

\* the useMemo body of filteredData for a result d and a filter state
Recompute(d, selLabels, selHashtags, hideVideos, hideLabels) ==
    RecomputeFrom(d, WorkingLabels(d, selLabels, hideLabels), selHashtags, hideVideos)

\* ------------------------------------------------------------------ state
VARIABLES
    disk,                   \* the files the user can pick
    data,                   \* the current result, or Null
    history,                \* the stored results, most recent first
    selectedLabels,
    selectedHashtags,
    hideLowEarnings,
    hideLowEarningLabels,
    exchangeRate,
    bonusPercentage,
    loading,
    isAiLoading,
    missingColumns,
    parsing,                \* the files Papa.parse is reading
    aiCalls,                \* the pending getAIInsights calls: a bag of result ids
    nextId,                 \* results built so far: the next result's identity
    alerts,                 \* the error dialogs shown so far
    requests                \* the requests sent to the model service so far

filterVars == <<selectedLabels, selectedHashtags, hideLowEarnings, hideLowEarningLabels>>
configVars == <<exchangeRate, bonusPercentage>>
vars == <<disk, data, history, selectedLabels, selectedHashtags, hideLowEarnings,
          hideLowEarningLabels, exchangeRate, bonusPercentage, loading, isAiLoading,
          missingColumns, parsing, aiCalls, nextId, alerts, requests>>

\* the filtered view the page renders, Null without a current result
filteredData ==
    IF data = Null THEN Null
    ELSE Recompute(data, selectedLabels, selectedHashtags,
                   hideLowEarnings, hideLowEarningLabels)

\* l.videoCount > 0 ? l.totalEarning / l.videoCount : 0
Efficiency(l) == IF l.videoCount > 0 THEN FDiv(l.totalEarning, l.videoCount) ELSE 0

\* filtered.labelSummaries.map(l => ...), [] without a filtered view
EfficienciesOf(filtered) ==
    IF filtered = Null THEN <<>>
    ELSE [i \in 1..Len(filtered.labelSummaries) |-> Efficiency(filtered.labelSummaries[i])]

\* the efficiencies of the labels of the filtered view
efficiencies == EfficienciesOf(filteredData)

\* Math.max(...es), 0 for no efficiency
MaxEfficiencyOf(es) == IF Len(es) > 0 THEN MaxOf(es) ELSE 0

maxEfficiency == MaxEfficiencyOf(efficiencies)

\* es.reduce((a, b) => a + b, 0) / es.length, 0 for no efficiency
AvgEfficiencyOf(es) == IF Len(es) > 0 THEN FRatio(SumNumbers(es, 0), Len(es)) ELSE 0

avgEfficiency == AvgEfficiencyOf(efficiencies)

\* a tiering that takes an efficiency at a threshold as above it
EL_AtThreshold(efficiency, avg) ==
    IF efficiency >= FRatio(3 * avg, 2) THEN "Xuat sac"
    ELSE IF efficiency >= avg THEN "Tot"
    ELSE "Trung binh"

\* efficiencyLabel of a row with this efficiency: above avgEfficiency * 1.5,
\* above avgEfficiency, or neither
EfficiencyTier(efficiency, avg) ==
    IF efficiency > FRatio(3 * avg, 2) THEN "Xuat sac"
    ELSE IF efficiency > avg THEN "Tot"
    ELSE "Trung binh"

\* efficiencyLabel of row i of the efficiency table
efficiencyLabel(i) ==
    EfficiencyTier(Efficiency(filteredData.labelSummaries[i]), avgEfficiency)

\* the "highest efficiency" marker of row i of the efficiency table
isTopEfficiency(i) ==
    /\ Efficiency(filteredData.labelSummaries[i]) = maxEfficiency
    /\ Efficiency(filteredData.labelSummaries[i]) > 0

\* a slice that keeps the whole list
SL_KeepAll(seq, n) == seq

\* seq.slice(0, n)
Slice(seq, n) == SubSeq(seq, 1, IF Len(seq) < n THEN Len(seq) ELSE n)

\* seq without its entry i
RemoveAt(seq, i) == SubSeq(seq, 1, i - 1) \o SubSeq(seq, i + 1, Len(seq))

\* ------------------------------------------------------------------ handlers
\* the user picks a file: the page is cleared and Papa.parse starts
handleFileUpload(file) ==
    /\ Len(parsing) + (nextId - 1) + alerts < MaxUploads
    /\ loading' = TRUE
    /\ data' = Null
    /\ missingColumns' = <<>>
    /\ selectedLabels' = <<>>
    /\ selectedHashtags' = <<>>
    /\ parsing' = Append(parsing, file)
    /\ UNCHANGED <<disk, history, hideLowEarnings, hideLowEarningLabels, configVars,
                   isAiLoading, aiCalls, nextId, alerts, requests>>

\* prev.slice(0, 9): the stored results kept beside a new one
HistoryKept == 9

\* the state changes of processCSV once newResult is built from job i
Publish(i, newResult) ==
    /\ missingColumns' = newResult.missingColumns
    /\ data' = newResult
    /\ history' = <<newResult>> \o Slice(history, HistoryKept)
    /\ selectedLabels' = LabelNames(newResult.labelSummaries)
    /\ selectedHashtags' = <<>>
    /\ loading' = FALSE
    /\ isAiLoading' = TRUE
    /\ aiCalls' = aiCalls (+) SetToBag({newResult.id})
    /\ nextId' = nextId + 1
    /\ parsing' = RemoveAt(parsing, i)
    /\ requests' = requests + 1
    /\ UNCHANGED <<disk, hideLowEarnings, hideLowEarningLabels, configVars, alerts>>

\* Papa.parse completes job i: the result is built, made current, put first in
\* the history, and an insight call is started for it
processCSV(i) == Publish(i, BuildResult(parsing[i], parsing[i].name, nextId, nextId))

\* an error callback that shows the dialog and leaves the loading flag alone
PE_KeepLoading(i) ==
    /\ alerts' = alerts + 1
    /\ parsing' = RemoveAt(parsing, i)
    /\ UNCHANGED <<disk, data, history, filterVars, configVars, loading, isAiLoading,
                   missingColumns, aiCalls, nextId, requests>>

\* Papa.parse fails on job i: the error dialog is shown
parseError(i) ==
    /\ alerts' = alerts + 1
    /\ loading' = FALSE
    /\ parsing' = RemoveAt(parsing, i)
    /\ UNCHANGED <<disk, data, history, filterVars, configVars, isAiLoading,
                   missingColumns, aiCalls, nextId, requests>>

selectAllLabels ==
    /\ data # Null
    /\ selectedLabels' = LabelNames(data.labelSummaries)
    /\ UNCHANGED <<disk, data, history, selectedHashtags, hideLowEarnings,
                   hideLowEarningLabels, configVars, loading, isAiLoading,
                   missingColumns, parsing, aiCalls, nextId, alerts, requests>>

deselectAllLabels ==
    /\ data # Null
    /\ selectedLabels' = <<>>
    /\ UNCHANGED <<disk, data, history, selectedHashtags, hideLowEarnings,
                   hideLowEarningLabels, configVars, loading, isAiLoading,
                   missingColumns, parsing, aiCalls, nextId, alerts, requests>>

\* prev.includes(x) ? prev.filter(y => y !== x) : [...prev, x]
Toggle(prev, x) ==
    IF Includes(prev, x) THEN SelectSeq(prev, LAMBDA y : y # x) ELSE Append(prev, x)

\* a click on the button of label i of the current result
toggleLabel(i) ==
    /\ data # Null
    /\ i \in 1..Len(data.labelSummaries)
    /\ selectedLabels' = Toggle(selectedLabels, data.labelSummaries[i].label)
    /\ UNCHANGED <<disk, data, history, selectedHashtags, hideLowEarnings,
                   hideLowEarningLabels, configVars, loading, isAiLoading,
                   missingColumns, parsing, aiCalls, nextId, alerts, requests>>

\* a click on the button of hashtag i of the current result
toggleHashtag(i) ==
    /\ data # Null
    /\ i \in 1..Len(data.allHashtags)
    /\ selectedHashtags' = Toggle(selectedHashtags, data.allHashtags[i])
    /\ UNCHANGED <<disk, data, history, selectedLabels, hideLowEarnings,
                   hideLowEarningLabels, configVars, loading, isAiLoading,
                   missingColumns, parsing, aiCalls, nextId, alerts, requests>>

\* the "clear" button under the hashtags: setSelectedHashtags([])
clearHashtags ==
    /\ data # Null
    /\ Len(selectedHashtags) > 0
    /\ selectedHashtags' = <<>>
    /\ UNCHANGED <<disk, data, history, selectedLabels, hideLowEarnings,
                   hideLowEarningLabels, configVars, loading, isAiLoading,
                   missingColumns, parsing, aiCalls, nextId, alerts, requests>>

\* a toggle that stores the filtered view as the current result
TH_StoreView ==
    /\ data # Null
    /\ hideLowEarnings' = ~hideLowEarnings
    /\ data' = Recompute(data, selectedLabels, selectedHashtags,
                         ~hideLowEarnings, hideLowEarningLabels)
    /\ UNCHANGED <<disk, history, selectedLabels, selectedHashtags,
                   hideLowEarningLabels, configVars, loading, isAiLoading,
                   missingColumns, parsing, aiCalls, nextId, alerts, requests>>

toggleHideLowEarnings ==
    /\ data # Null
    /\ hideLowEarnings' = ~hideLowEarnings
    /\ UNCHANGED <<disk, data, history, selectedLabels, selectedHashtags,
                   hideLowEarningLabels, configVars, loading, isAiLoading,
                   missingColumns, parsing, aiCalls, nextId, alerts, requests>>

toggleHideLowEarningLabels ==
    /\ data # Null
    /\ hideLowEarningLabels' = ~hideLowEarningLabels
    /\ UNCHANGED <<disk, data, history, selectedLabels, selectedHashtags,
                   hideLowEarnings, configVars, loading, isAiLoading,
                   missingColumns, parsing, aiCalls, nextId, alerts, requests>>

\* a load that leaves the selections of the result shown before
LH_KeepSelection(i) ==
    /\ i \in 1..Len(history)
    /\ data' = history[i]
    /\ missingColumns' = history[i].missingColumns
    /\ UNCHANGED <<disk, history, filterVars, configVars, loading, isAiLoading,
                   parsing, aiCalls, nextId, alerts, requests>>

\* a click on entry i of the history panel
loadFromHistory(i) ==
    /\ i \in 1..Len(history)
    /\ data' = history[i]
    /\ missingColumns' = history[i].missingColumns
    /\ selectedLabels' = LabelNames(history[i].labelSummaries)
    /\ selectedHashtags' = <<>>
    /\ UNCHANGED <<disk, history, hideLowEarnings, hideLowEarningLabels, configVars,
                   loading, isAiLoading, parsing, aiCalls, nextId, alerts, requests>>

\* prev.filter(item => item.id !== id)
WithoutId(results, id) == SelectSeq(results, LAMBDA item : item.id # id)

\* a click on the delete button of entry i of the history panel
deleteFromHistory(i) ==
    /\ i \in 1..Len(history)
    /\ history' = WithoutId(history, history[i].id)
    /\ IF data # Null /\ data.id = history[i].id
       THEN data' = Null /\ missingColumns' = <<>>
       ELSE UNCHANGED <<data, missingColumns>>
    /\ UNCHANGED <<disk, filterVars, configVars, loading, isAiLoading, parsing,
                   aiCalls, nextId, alerts, requests>>

\* the "create AI analysis" button, shown for a current result while no
\* insight is loading: handleAIAnalysis(data, bonusPercentage) up to its await
handleAIAnalysis ==
    /\ data # Null
    /\ ~isAiLoading
    /\ requests < MaxRequests
    /\ isAiLoading' = TRUE
    /\ aiCalls' = aiCalls (+) SetToBag({data.id})
    /\ requests' = requests + 1
    /\ UNCHANGED <<disk, data, history, filterVars, configVars, loading,
                   missingColumns, parsing, nextId, alerts>>

\* What the model service does with a request: it answers with a text, answers
\* without one, or the request throws.
Responses == {"text", "empty", "throws"}

\* an insight text, kept whole
InsightText == Str(<<"Nhan C hieu qua nhat.">>)
NoTextPlaceholder == Str(<<"Khong the tao phan tich luc nay.">>)
ErrorPlaceholder ==
    Str(<<"Da xay ra loi khi ket noi voi tri tue nhan tao de phan tich du lieu.">>)

\* a service without the catch: a failed call leaves no string behind
GI_NoCatch(response) ==
    CASE response = "text"   -> InsightText
      [] response = "empty"  -> NoTextPlaceholder
      [] response = "throws" -> Null

\* the string getAIInsights resolves to
getAIInsights(response) ==
    CASE response = "text"   -> InsightText
      [] response = "empty"  -> NoTextPlaceholder
      [] response = "throws" -> ErrorPlaceholder

\* an attachment with the test on the id the wrong way round
AI_Unless(r, id, insight) == IF r.id # id THEN [r EXCEPT !.aiInsight = insight] ELSE r

\* an attachment that ignores the id
AI_Always(r, id, insight) == [r EXCEPT !.aiInsight = insight]

\* r.id === currentData.id ? {...r, aiInsight: insight} : r
AttachInsight(r, id, insight) ==
    IF r.id = id THEN [r EXCEPT !.aiInsight = insight] ELSE r

\* handleAIAnalysis after its await: a call for result id resolves to insight
InsightArrives(id, insight) ==
    /\ data' = IF data # Null THEN AttachInsight(data, id, insight) ELSE data
    /\ history' = [j \in 1..Len(history) |-> AttachInsight(history[j], id, insight)]
    /\ isAiLoading' = FALSE
    /\ aiCalls' = aiCalls (-) SetToBag({id})
    /\ UNCHANGED <<disk, filterVars, configVars, loading, missingColumns, parsing,
                   nextId, alerts, requests>>

\* the service is done with a call for result id
handleAIAnalysisResolved(id, response) ==
    /\ BagIn(id, aiCalls)
    /\ InsightArrives(id, getAIInsights(response))

\* the values typed into the two configuration inputs
Rates == {25400, 0}
Bonuses == {5, 10}

setExchangeRate(v) ==
    /\ data # Null
    /\ exchangeRate' = v
    /\ UNCHANGED <<disk, data, history, filterVars, bonusPercentage, loading,
                   isAiLoading, missingColumns, parsing, aiCalls, nextId, alerts, requests>>

setBonusPercentage(v) ==
    /\ data # Null
    /\ bonusPercentage' = v
    /\ UNCHANGED <<disk, data, history, filterVars, exchangeRate, loading,
                   isAiLoading, missingColumns, parsing, aiCalls, nextId, alerts, requests>>

\* ------------------------------------------------------------------ inputs
SeqsUpTo(S, n) == UNION {[1..k -> S] : k \in 0..n}

\* every column the program reads, as the header of a file
AllFields ==
    <<ColTitleVN, ColTitleEN, ColLabelVN, ColLabelEN, ColEarnVN, ColEarnEN,
      ColDateVN, ColDateEN, ColPostId, ColAssetEN, ColAssetVN, ColDescEN, ColDescVN>>

\* the first amount (in smallest amounts) at which adding the smallest amount
\* is rounded away
Big == Pow(2, MantissaBits)

\* a row of a Vietnamese export: title, label, earning and description cells
RowVN(title, label, earning, desc) ==
    (ColTitleVN :> title) @@ (ColLabelVN :> label) @@ (ColEarnVN :> earning)
        @@ (ColDescVN :> desc)

\* The rows of the export files are drawn from: every cell is text, as
\* Papa.parse yields it with header: true.  Titles "A" and "A-B" under labels
\* "C" and "B-C"; amounts 0.5, -1, 1,500 + 2 and Big; an amount that is no
\* number; tagged and untagged descriptions; a row without a label and a row
\* without a title.
IngestRows ==
    << RowVN(Str(<<"A">>), Str(<<"C">>), Str(<<"0", ".", "5">>), Str(<<"#", "a">>)),
       RowVN(Str(<<"A", "-", "B">>), Str(<<"C">>), Str(<<"0", ".", "5">>), Str(<<>>)),
       RowVN(Str(<<"A">>), Str(<<"B", "-", "C">>), Str(<<"-", "1">>), Str(<<>>)),
       RowVN(Str(<<"A", "-", "B">>), Str(<<"B", "-", "C">>),
             Str(NatText(Big \div One)), Str(<<>>)),
       RowVN(Str(<<" ", "A">>), Str(<<" ">>), Str(<<"1", ",", "5", "0", "0">>),
             Str(<<"#", "A", " ", "#", "b">>)) @@ (ColEarnEN :> Str(<<"2">>)),
       RowVN(Str(<<" ">>), Str(<<"C">>), Str(<<"1">>), Str(<<"#", "c">>)),
       (ColTitleEN :> Str(<<"A">>)) @@ (ColLabelEN :> Str(<<"C">>))
           @@ (ColEarnEN :> Str(<<"x">>))
           @@ (ColDescEN :> Str(<<"#", "b", ",", "#", "A">>)) >>

\* the selections of up to n rows of the export, kept in the export's order,
\* a row possibly taken more than once
Selections(n) ==
    {ix \in SeqsUpTo(1..Len(IngestRows), n) :
        \A i \in 1..(Len(ix) - 1) : ix[i] <= ix[i + 1]}

IngestFiles ==
    {[name |-> "export.csv", fields |-> AllFields,
      data |-> [i \in 1..Len(ix) |-> IngestRows[ix[i]]]] : ix \in Selections(MaxRows)}

\* ------------------------------------------------------------------ behaviour
\* the page after construction, before any file is picked
Blank ==
    /\ data = Null
    /\ history = <<>>
    /\ selectedLabels = <<>>
    /\ selectedHashtags = <<>>
    /\ hideLowEarnings = FALSE
    /\ hideLowEarningLabels = FALSE
    /\ exchangeRate = 25400
    /\ bonusPercentage = 5
    /\ loading = FALSE
    /\ isAiLoading = FALSE
    /\ missingColumns = <<>>
    /\ parsing = <<>>
    /\ aiCalls = EmptyBag
    /\ nextId = 1
    /\ alerts = 0
    /\ requests = 0

\* a user with one export at hand
InitIngest ==
    /\ disk \in {{f} : f \in IngestFiles}
    /\ Blank

\* picking, parsing and filtering
NextIngest ==
    \/ \E f \in disk : handleFileUpload(f)
    \/ \E i \in 1..Len(parsing) : processCSV(i)
    \/ \E i \in 1..Len(parsing) : parseError(i)
    \/ selectAllLabels
    \/ deselectAllLabels
    \/ \E i \in 1..MaxRows : toggleLabel(i)
    \/ \E i \in 1..(2 * MaxRows) : toggleHashtag(i)
    \/ clearHashtags
    \/ toggleHideLowEarnings
    \/ toggleHideLowEarningLabels

SpecIngest == InitIngest /\ [][NextIngest]_vars

\* ------------------------------------------------------------------ the page
\* the export at hand when the whole page is run: two videos under two labels
AppFiles ==
    {[name |-> "new.csv", fields |-> AllFields, data |-> <<IngestRows[1], IngestRows[5]>>]}

\* the history earlier sessions left in localStorage: k results, most recent
\* first, their identities apart from those of this session
StoredHistory(k) ==
    [j \in 1..k |->
        BuildResult([name |-> "old.csv", fields |-> AllFields, data |-> <<IngestRows[2]>>],
                    "old.csv", -j, -j)]

\* the page after construction, the history aside
Mounted ==
    /\ data = Null
    /\ selectedLabels = <<>>
    /\ selectedHashtags = <<>>
    /\ hideLowEarnings = FALSE
    /\ hideLowEarningLabels = FALSE
    /\ exchangeRate = 25400
    /\ bonusPercentage = 5
    /\ loading = FALSE
    /\ isAiLoading = FALSE
    /\ missingColumns = <<>>
    /\ parsing = <<>>
    /\ aiCalls = EmptyBag
    /\ nextId = 1
    /\ alerts = 0
    /\ requests = 0

\* The page with its history and insights: the mount effect has read a stored
\* history that is empty, or one entry longer than the entries that get clicked.
Init ==
    /\ disk = AppFiles
    /\ history \in {StoredHistory(k) : k \in {0, MaxEntry + 1}}
    /\ Mounted

\* an insight call resolves
InsightStep == \E id \in BagToSet(aiCalls) : \E response \in Responses :
                   handleAIAnalysisResolved(id, response)

\* an upload, from the pick of the file to the end of its parsing
UploadStep ==
    \/ \E f \in disk : handleFileUpload(f)
    \/ \E i \in 1..Len(parsing) : processCSV(i)
    \/ \E i \in 1..Len(parsing) : parseError(i)

\* a click in the history panel
HistoryStep ==
    \/ \E i \in 1..MaxEntry : loadFromHistory(i)
    \/ \E i \in 1..MaxEntry : deleteFromHistory(i)

Next ==
    \/ UploadStep
    \/ HistoryStep
    \/ handleAIAnalysis
    \/ InsightStep

Spec == Init /\ [][Next]_vars

\* The history at its capacity: the stored history is empty or full, and the
\* insight calls are those the uploads start.
InitHistory ==
    /\ disk = AppFiles
    /\ history \in {StoredHistory(k) : k \in {0, HistoryKept + 1}}
    /\ Mounted

NextHistory ==
    \/ UploadStep
    \/ HistoryStep
    \/ InsightStep

SpecHistory == InitHistory /\ [][NextHistory]_vars

\* a change of the filter state or of the configuration
FilterStep ==
    \/ selectAllLabels
    \/ deselectAllLabels
    \/ \E i \in 1..MaxRows : toggleLabel(i)
    \/ \E i \in 1..(2 * MaxRows) : toggleHashtag(i)
    \/ clearHashtags
    \/ toggleHideLowEarnings
    \/ toggleHideLowEarningLabels
    \/ \E v \in Rates : setExchangeRate(v)
    \/ \E v \in Bonuses : setBonusPercentage(v)

\* The stored results under the filter: one stored result, the uploads, the
\* history panel, the filter and configuration controls, and the insights the
\* uploads ask for.
InitFrame ==
    /\ disk = AppFiles
    /\ history = StoredHistory(1)
    /\ Mounted

NextFrame ==
    \/ UploadStep
    \/ HistoryStep
    \/ InsightStep
    \/ FilterStep

SpecFrame == InitFrame /\ [][NextFrame]_vars

\* The two ends of a full history: the stored history is full, and the user
\* loads its first or its last entry, deletes results of their own uploads,
\* asks for insights and uploads.
EndsStep ==
    \/ \E i \in {1, Len(history)} : loadFromHistory(i)
    \/ \E i \in 1..MaxUploads :
          /\ i <= Len(history)
          /\ history[i].id > 0
          /\ deleteFromHistory(i)

InitEnds ==
    /\ disk = AppFiles
    /\ history = StoredHistory(HistoryKept + 1)
    /\ Mounted

NextEnds ==
    \/ UploadStep
    \/ EndsStep
    \/ handleAIAnalysis
    \/ InsightStep

SpecEnds == InitEnds /\ [][NextEnds]_vars

\* ------------------------------------------------------------ descriptions
\* the pieces of a description: hashtags that differ in case only, another
\* hashtag, a blank and a letter
TagPieces == << <<"#", "A">>, <<"#", "a">>, <<"#", "b">>, <<" ">>, <<"a">> >>

\* the pieces, by index, put one after the other
RECURSIVE JoinPieces(_)
JoinPieces(ix) ==
    IF ix = <<>> THEN <<>> ELSE TagPieces[Head(ix)] \o JoinPieces(Tail(ix))

TagTexts == {JoinPieces(ix) : ix \in SeqsUpTo(1..Len(TagPieces), MaxPieces)}

\* a header without the description columns
FieldsSansDescription ==
    SelectSeq(AllFields, LAMBDA h : h \notin {ColDescEN, ColDescVN})

\* exports of one row: one per description text, under the Vietnamese or the
\* English column, and one whose header has no description column
TagFiles ==
    {[name |-> "tags.csv", fields |-> AllFields,
      data |-> <<RowVN(Str(<<"A">>), Str(<<"C">>), Str(<<"1">>), Str(t))>>] :
        t \in TagTexts}
    \cup
    {[name |-> "tags.csv", fields |-> AllFields,
      data |-> <<(ColTitleEN :> Str(<<"A">>)) @@ (ColDescEN :> Str(t))>>] :
        t \in TagTexts}
    \cup
    {[name |-> "tags.csv", fields |-> FieldsSansDescription,
      data |-> <<(ColTitleEN :> Str(<<"A">>))>>]}

\* a user with one of these exports at hand
InitTags ==
    /\ disk \in {{f} : f \in TagFiles}
    /\ Blank

\* picking a file and parsing it
NextFile ==
    \/ \E f \in disk : handleFileUpload(f)
    \/ \E i \in 1..Len(parsing) : processCSV(i)
    \/ \E i \in 1..Len(parsing) : parseError(i)

SpecTags == InitTags /\ [][NextFile]_vars

\* ------------------------------------------------------------- identifiers
\* a row of an English export: title, label and earning cells
RowEN(title, label, earning) ==
    (ColTitleEN :> title) @@ (ColLabelEN :> label) @@ (ColEarnEN :> earning)

\* The rows of exports with identifier columns: video "A" under label "C"
\* with an empty Post ID, with Post ID "P" and with Video asset ID " V ";
\* video "A" under label "D" with the Vietnamese identifier "W"; video "B"
\* under label "D" without an identifier cell.
AssetRows ==
    << RowEN(Str(<<"A">>), Str(<<"C">>), Str(<<"2">>)) @@ (ColPostId :> Str(<<>>)),
       RowEN(Str(<<"A">>), Str(<<"C">>), Str(<<"2">>)) @@ (ColPostId :> Str(<<"P">>)),
       RowEN(Str(<<"A">>), Str(<<"C">>), Str(<<"1">>))
           @@ (ColAssetEN :> Str(<<" ", "V", " ">>)),
       RowEN(Str(<<"A">>), Str(<<"D">>), Str(<<"2">>)) @@ (ColAssetVN :> Str(<<"W">>)),
       RowEN(Str(<<"B">>), Str(<<"D">>), Str(<<"2">>)) >>

\* the headers of these exports: every column, no identifier column, and the
\* Vietnamese identifier column alone
FieldsSansIdentifier ==
    SelectSeq(AllFields, LAMBDA h : h \notin {ColPostId, ColAssetEN, ColAssetVN})

FieldsOneIdentifier == SelectSeq(AllFields, LAMBDA h : h \notin {ColPostId, ColAssetEN})

AssetHeaders == {AllFields, FieldsSansIdentifier, FieldsOneIdentifier}

\* the cells of a row that stand under a column of the header
UnderHeader(row, fields) ==
    [col \in {c \in DOMAIN row : Includes(fields, c)} |-> row[col]]

\* exports of up to MaxRows of these rows, in any order, under each header
AssetFiles ==
    {[name |-> "assets.csv", fields |-> fields,
      data |-> [i \in 1..Len(ix) |-> UnderHeader(AssetRows[ix[i]], fields)]] :
        ix \in SeqsUpTo(1..Len(AssetRows), MaxRows), fields \in AssetHeaders}

\* a user with one of these exports at hand
InitRows ==
    /\ disk \in {{f} : f \in AssetFiles}
    /\ Blank

SpecRows == InitRows /\ [][NextFile]_vars

\* ------------------------------------------------------------------- dated
\* The rows of exports with a date column: video "A" under label "C" with an
\* empty date, with 2024-01-05 and with 2024-01-02 between blanks; a row
\* without a title dated 2023-12-28; video "B" under label "C" with a date
\* that does not parse.
DatedRows ==
    << RowEN(Str(<<"A">>), Str(<<"C">>), Str(<<"2">>)) @@ (ColDateEN :> Str(<<>>)),
       RowEN(Str(<<"A">>), Str(<<"C">>), Str(<<"1">>))
           @@ (ColDateEN :> Str(<<"2", "0", "2", "4", "-", "0", "1", "-", "0", "5">>)),
       RowEN(Str(<<"A">>), Str(<<"C">>), Str(<<"1">>))
           @@ (ColDateVN :>
                 Str(<<" ", "2", "0", "2", "4", "-", "0", "1", "-", "0", "2", " ">>)),
       (ColLabelEN :> Str(<<"C">>)) @@ (ColEarnEN :> Str(<<"1">>))
           @@ (ColDateEN :> Str(<<"2", "0", "2", "3", "-", "1", "2", "-", "2", "8">>)),
       RowEN(Str(<<"B">>), Str(<<"C">>), Str(<<"2">>)) @@ (ColDateEN :> Str(<<"x">>)) >>

\* exports of up to MaxRows of these rows, in any order
DatedFiles ==
    {[name |-> "dated.csv", fields |-> AllFields,
      data |-> [i \in 1..Len(ix) |-> DatedRows[ix[i]]]] :
        ix \in SeqsUpTo(1..Len(DatedRows), MaxRows)}

\* a user with one of these exports at hand
InitDated ==
    /\ disk \in {{f} : f \in DatedFiles}
    /\ Blank

SpecDated == InitDated /\ [][NextFile]_vars

\* ------------------------------------------------------------------ tables
\* The rows of exports whose totals tie: videos "A" and "B" under label "C"
\* worth exactly 1 each; video "A" under label "D" worth 2, as much as label
\* "C"; video "A" under label "Y" worth 0.5; video "A" under label "X"
\* worth 3, three times a video of label "C".
TableRows ==
    << RowEN(Str(<<"A">>), Str(<<"C">>), Str(<<"1">>)),
       RowEN(Str(<<"B">>), Str(<<"C">>), Str(<<"1">>)),
       RowEN(Str(<<"A">>), Str(<<"D">>), Str(<<"2">>)),
       RowEN(Str(<<"A">>), Str(<<"Y">>), Str(<<"0", ".", "5">>)),
       RowEN(Str(<<"A">>), Str(<<"X">>), Str(<<"3">>)) >>

\* exports of up to MaxRows of these rows, in any order
TableFiles ==
    {[name |-> "table.csv", fields |-> AllFields,
      data |-> [i \in 1..Len(ix) |-> TableRows[ix[i]]]] :
        ix \in SeqsUpTo(1..Len(TableRows), MaxRows)}

\* a user with one of these exports at hand
InitTable ==
    /\ disk \in {{f} : f \in TableFiles}
    /\ Blank

\* picking a file, parsing it, and filtering the tables of the result
NextTable ==
    \/ NextFile
    \/ \E i \in 1..MaxRows : toggleLabel(i)
    \/ toggleHideLowEarnings
    \/ toggleHideLowEarningLabels

SpecTable == InitTable /\ [][NextTable]_vars

\* ------------------------------------------------------------------ marked
\* The rows of exports with descriptions: video "A" under label "C" tagged
\* "#b #a"; video "B" under label "C" tagged "#A,#_"; a row without a title
\* tagged "#c #a"; video "A" under label "D" with an empty description; video
\* "A" under label "C" tagged "#B #1".
MarkedRows ==
    << RowVN(Str(<<"A">>), Str(<<"C">>), Str(<<"1">>), Str(<<"#", "b", " ", "#", "a">>)),
       RowVN(Str(<<"B">>), Str(<<"C">>), Str(<<"1">>), Str(<<"#", "A", ",", "#", "_">>)),
       RowVN(Str(<<>>), Str(<<"C">>), Str(<<"1">>), Str(<<"#", "c", " ", "#", "a">>)),
       RowVN(Str(<<"A">>), Str(<<"D">>), Str(<<"1">>), Str(<<>>)),
       RowVN(Str(<<"A">>), Str(<<"C">>), Str(<<"1">>), Str(<<"#", "B", " ", "#", "1">>)) >>

\* exports of up to MaxRows of these rows, in any order
MarkedFiles ==
    {[name |-> "marked.csv", fields |-> AllFields,
      data |-> [i \in 1..Len(ix) |-> MarkedRows[ix[i]]]] :
        ix \in SeqsUpTo(1..Len(MarkedRows), MaxRows)}

\* a user with one of these exports at hand
InitMarked ==
    /\ disk \in {{f} : f \in MarkedFiles}
    /\ Blank

SpecMarked == InitMarked /\ [][NextFile]_vars

\* ------------------------------------------------------------------ claims
\* Under SpecIngest the disk holds one file, so a current result was built
\* from the rows of that file.

\* the fields of a result that the recomputation replaces
View(r) == <<r.labelSummaries, r.videoEarnings, r.grandTotal, r.lowEarningCount>>

\* the recomputation applied, with the page's filter state, to its own output
Again == Recompute(filteredData, selectedLabels, selectedHashtags,
                   hideLowEarnings, hideLowEarningLabels)

\* the page's recomputation with hideLowEarningVideos set to hide
WithHide(hide) == Recompute(data, selectedLabels, selectedHashtags, hide,
                            hideLowEarningLabels)

\* the videos of a result under a label
VideosOf(r, label) == SelectSeq(r.videoEarnings, LAMBDA v : v.label = label)

\* C1 (as stated): recomputing the output of a recomputation with the same
\* filter state changes none of labelSummaries, videoEarnings, grandTotal and
\* lowEarningCount.
C1_Idempotent == data # Null => View(Again) = View(filteredData)

\* C1 (amended): the same, for a filter state in which hideLowEarningLabels is
\* off or no label of the first output has a recomputed total below 1.
C1_IdempotentAboveThreshold ==
    (/\ data # Null
     /\ \/ ~hideLowEarningLabels
        \/ \A i \in 1..Len(filteredData.labelSummaries) :
               filteredData.labelSummaries[i].totalEarning >= One)
    => View(Again) = View(filteredData)

\* a recomputation that hid some videos and kept others, low labels hidden
C1_Witness ==
    /\ data # Null
    /\ hideLowEarningLabels
    /\ Len(selectedHashtags) > 0
    /\ Len(filteredData.videoEarnings) > 0
    /\ Len(filteredData.videoEarnings) < Len(data.videoEarnings)
    /\ View(Again) = View(filteredData)

\* C2 (as stated): hiding the low-earning videos never increases grandTotal
\* or the number of videos of the filtered result.
C2_Monotone ==
    data # Null =>
        /\ WithHide(TRUE).grandTotal <= WithHide(FALSE).grandTotal
        /\ Len(WithHide(TRUE).videoEarnings) <= Len(WithHide(FALSE).videoEarnings)

\* C2 (amended): hiding the low-earning videos never increases the number of
\* videos, and never increases grandTotal when no video of the base result has
\* a negative total.
C2_MonotoneNonNegative ==
    data # Null =>
        /\ Len(WithHide(TRUE).videoEarnings) <= Len(WithHide(FALSE).videoEarnings)
        /\ (\A i \in 1..Len(data.videoEarnings) : data.videoEarnings[i].totalEarning >= 0)
            => WithHide(TRUE).grandTotal <= WithHide(FALSE).grandTotal

\* hiding removes a video and leaves another, none negative
C2_Witness ==
    /\ data # Null
    /\ \A i \in 1..Len(data.videoEarnings) : data.videoEarnings[i].totalEarning >= 0
    /\ Len(WithHide(TRUE).videoEarnings) > 0
    /\ Len(WithHide(TRUE).videoEarnings) < Len(WithHide(FALSE).videoEarnings)
    /\ WithHide(TRUE).grandTotal < WithHide(FALSE).grandTotal

\* C3: in the filtered result every label summary's totalEarning is the sum
\* of its videos in the same result, its videoCount their number, and no
\* summary has videoCount 0.
C3_LabelsReflectVideos ==
    data # Null =>
        \A i \in 1..Len(filteredData.labelSummaries) :
            LET l == filteredData.labelSummaries[i]
            IN  /\ l.totalEarning = SumEarnings(VideosOf(filteredData, l.label), 0)
                /\ l.videoCount = Len(VideosOf(filteredData, l.label))
                /\ l.videoCount > 0

\* a label is shown with a total other than its base total
C3_Witness ==
    /\ data # Null
    /\ \E i \in 1..Len(filteredData.labelSummaries) :
       \E j \in 1..Len(data.labelSummaries) :
           /\ filteredData.labelSummaries[i].label = data.labelSummaries[j].label
           /\ filteredData.labelSummaries[i].totalEarning # data.labelSummaries[j].totalEarning
           /\ filteredData.labelSummaries[i].videoCount < data.labelSummaries[j].videoCount

\* the rows of the uploaded file that have a title
TitledRows(file) == SelectSeq(file.data, LAMBDA row : Truthy(NormalizedRow(row).title))

\* the (title, label) pair of a row
PairOf(row) == <<NormalizedRow(row).title.s, LabelOf(NormalizedRow(row))>>

\* the (title, label) pairs of the rows that have a title
PairsOf(file) == {PairOf(TitledRows(file)[i]) : i \in 1..Len(TitledRows(file))}

\* s is a decimal numeral: an optional sign, digits, an optional fraction
IsDecimal(s) ==
    LET u  == IF s # <<>> /\ Head(s) \in {"-", "+"} THEN Tail(s) ELSE s
        ip == DigitPrefix(u)
        v  == SubSeq(u, Len(ip) + 1, Len(u))
    IN  /\ ip # <<>>
        /\ \/ v = <<>>
           \/ Len(v) > 1 /\ Head(v) = "." /\ DigitPrefix(Tail(v)) = Tail(v)

\* the value C8 gives an earning cell: 0 for an absent or empty cell, a number
\* itself, the decimal value of a text without its commas, 0 for other text
StatedEarning(val) ==
    IF val.k = "undefined" \/ (val.k = "string" /\ val.s = <<>>) THEN 0
    ELSE IF val.k = "number" THEN val.n
    ELSE IF IsDecimal(StripCommas(val.s)) THEN ParseFloat(StripCommas(val.s)).v
    ELSE 0

\* the stated earnings of the rows of a (title, label) pair, added in input
\* order
RECURSIVE PairEarning(_, _, _)
PairEarning(rows, pair, acc) ==
    IF rows = <<>> THEN acc
    ELSE PairEarning(Tail(rows), pair,
                     IF PairOf(Head(rows)) = pair
                     THEN FAdd(acc, FAdd(StatedEarning(Cell(Head(rows), ColEarnVN)),
                                         StatedEarning(Cell(Head(rows), ColEarnEN))))
                     ELSE acc)

\* C4 (as stated): rows are accumulated into one VideoEarning exactly when they
\* have the same title and the same label: the result has one entry for each
\* (title, label) pair of its rows, whatever characters they contain.
C4_OneEntryPerPair ==
    data # Null =>
        \A f \in disk :
            /\ Len(data.videoEarnings) = Cardinality(PairsOf(f))
            /\ \A pair \in PairsOf(f) :
                   \E i \in 1..Len(data.videoEarnings) :
                       <<data.videoEarnings[i].title, data.videoEarnings[i].label>> = pair

\* C5 (as stated): in a base result the totals of the videos add up to
\* grandTotal.
C5_VideosSumToGrandTotal ==
    data # Null => SumEarnings(data.videoEarnings, 0) = data.grandTotal

\* the magnitudes of the earnings of the rows, added without rounding
RECURSIVE SumMagnitudes(_)
SumMagnitudes(rows) ==
    IF rows = <<>> THEN 0
    ELSE Abs(parseEarning(Cell(Head(rows), ColEarnVN)))
         + Abs(parseEarning(Cell(Head(rows), ColEarnEN)))
         + SumMagnitudes(Tail(rows))

\* no sum of earnings of the file is rounded: the magnitudes stay within the
\* range in which every multiple of the smallest amount is a number
NoRounding(file) == SumMagnitudes(file.data) <= Big

\* C5 (amended): in a base result built from amounts whose sums are all exact
\* (none is rounded), the totals of the videos add up to grandTotal.
C5_VideosSumToGrandTotalExact ==
    data # Null =>
        \A f \in disk : NoRounding(f) => SumEarnings(data.videoEarnings, 0) = data.grandTotal

\* a base result of several videos under several labels, one video merged from
\* two rows, no sum rounded
C5_Witness ==
    /\ data # Null
    /\ \A f \in disk : NoRounding(f) /\ Len(TitledRows(f)) > Len(data.videoEarnings)
    /\ Len(data.videoEarnings) > 1
    /\ Len(data.labelSummaries) > 1
    /\ data.grandTotal # 0
    /\ SumEarnings(data.videoEarnings, 0) = data.grandTotal

\* C6: in the base result and in the filtered result grandTotal is the sum of
\* the totals of that result's label summaries.
C6_GrandTotalIsLabelSum ==
    data # Null =>
        /\ data.grandTotal = SumEarnings(data.labelSummaries, 0)
        /\ filteredData.grandTotal = SumEarnings(filteredData.labelSummaries, 0)

\* a filtered result with labels and a grand total other than the base one
C6_Witness ==
    /\ data # Null
    /\ Len(filteredData.labelSummaries) > 0
    /\ filteredData.grandTotal # data.grandTotal
    /\ filteredData.grandTotal = SumEarnings(filteredData.labelSummaries, 0)

\* C7 (as stated): in a base result each label summary's videoCount is the
\* number of videos of the result under that label.
C7_VideoCountMatches ==
    data # Null =>
        \A i \in 1..Len(data.labelSummaries) :
            data.labelSummaries[i].videoCount
                = Len(VideosOf(data, data.labelSummaries[i].label))

\* C8 (as stated): the total of each video is the sum, over the rows with its
\* title and label, of the parsed Vietnamese plus the parsed English earning.
C8_TotalIsSumOfRows ==
    data # Null =>
        \A f \in disk : \A i \in 1..Len(data.videoEarnings) :
            data.videoEarnings[i].totalEarning
                = PairEarning(TitledRows(f),
                              <<data.videoEarnings[i].title, data.videoEarnings[i].label>>, 0)

\* C9: with hideLowEarningLabels set, a selected label whose base total is
\* below 1 is in no label summary and on no video of the filtered result.
C9_LowLabelHidden ==
    (data # Null /\ hideLowEarningLabels) =>
        \A i \in 1..Len(data.labelSummaries) :
            (/\ Includes(selectedLabels, data.labelSummaries[i].label)
             /\ data.labelSummaries[i].totalEarning < One)
            => /\ ~Includes(LabelNames(filteredData.labelSummaries),
                            data.labelSummaries[i].label)
               /\ VideosOf(filteredData, data.labelSummaries[i].label) = <<>>

\* a selected label below 1 is hidden though a video of it, worth 1 or more
\* after the other filters, would be shown with the flag off
C9_Witness ==
    /\ data # Null
    /\ hideLowEarningLabels
    /\ \E i \in 1..Len(data.labelSummaries) :
           /\ Includes(selectedLabels, data.labelSummaries[i].label)
           /\ data.labelSummaries[i].totalEarning < One
           /\ VideosOf(filteredData, data.labelSummaries[i].label) = <<>>
           /\ VideosOf(Recompute(data, selectedLabels, selectedHashtags,
                                 hideLowEarnings, FALSE),
                       data.labelSummaries[i].label) # <<>>

\* C10: with no label selected the filtered result has no video, no label
\* summary, grandTotal 0 and lowEarningCount 0.
C10_EmptySelection ==
    (data # Null /\ selectedLabels = <<>>) =>
        View(filteredData) = <<(<<>>), (<<>>), 0, 0>>

\* no label is selected of a result that has low-earning videos
C10_Witness ==
    /\ data # Null
    /\ selectedLabels = <<>>
    /\ data.lowEarningCount > 0
    /\ data.grandTotal # 0
    /\ View(filteredData) = <<(<<>>), (<<>>), 0, 0>>

\* ------------------------------------------------------------------ history
\* a step in which the parsing of some upload completes
Ingestion == \E i \in 1..Len(parsing) : processCSV(i)

\* C11: the history never holds more than 10 results, and each successful
\* ingestion puts the new result at the front, followed by the entries the
\* history had, in their order, without the last of them when there were 10.
C11_BoundedHistory ==
    /\ [](Len(history) <= HistoryKept + 1)
    /\ [][Ingestion =>
            /\ history'[1] = data'
            /\ history'[1].id = nextId
            /\ Tail(history') = IF Len(history) = HistoryKept + 1
                                THEN SubSeq(history, 1, HistoryKept)
                                ELSE history]_vars

\* an ingestion into a full history has evicted its oldest entry
C11_Witness ==
    /\ Len(history) = HistoryKept + 1
    /\ history[1].id = 1
    /\ history[Len(history)].id = -HistoryKept

\* ----------------------------------------------------------------- insights
\* C12: when the insight call started for the result with a given id resolves,
\* every history entry with that id receives the insight; the current result
\* receives it only if it has that id, and a current result with another id
\* (or no current result) stays exactly as it was.
C12_InsightByIdentity ==
    [][\A id \in BagToSet(aiCalls) : \A response \in Responses :
          handleAIAnalysisResolved(id, response) =>
            /\ Len(history') = Len(history)
            /\ \A j \in 1..Len(history) :
                  IF history[j].id = id
                  THEN /\ history'[j].id = id
                       /\ history'[j].aiInsight = getAIInsights(response)
                  ELSE history'[j] = history[j]
            /\ IF data # Null /\ data.id = id
               THEN /\ data'.id = id
                    /\ data'.aiInsight = getAIInsights(response)
               ELSE data' = data]_vars

\* an insight has reached its history entry while another result is current
C12_Witness ==
    /\ data # Null
    /\ data.aiInsight = Null
    /\ \E j \in 1..Len(history) :
          /\ history[j].id # data.id
          /\ history[j].aiInsight # Null

\* a result with its insight set aside
SansInsight(r) == IF r = Null THEN Null ELSE [r EXCEPT !.aiInsight = Null]

\* C13: a failed insight call resolves like a successful one: the result it
\* was started for receives the fixed error placeholder as aiInsight, the
\* loading flag is cleared, and no other field of the current result or of any
\* history entry changes.
C13_FailureIsPlaceholder ==
    [][\A id \in BagToSet(aiCalls) :
          handleAIAnalysisResolved(id, "throws") =>
            /\ ~isAiLoading'
            /\ SansInsight(data') = SansInsight(data)
            /\ Len(history') = Len(history)
            /\ \A j \in 1..Len(history) :
                  /\ SansInsight(history'[j]) = SansInsight(history[j])
                  /\ history[j].id = id => history'[j].aiInsight = ErrorPlaceholder
            /\ data # Null /\ data.id = id => data'.aiInsight = ErrorPlaceholder]_vars

\* a failed call has left the placeholder on the current result and in history
C13_Witness ==
    /\ data # Null
    /\ data.aiInsight = ErrorPlaceholder
    /\ Len(data.videoEarnings) > 0
    /\ \E j \in 1..Len(history) : history[j] = data

\* ------------------------------------------------------------------ uploads
\* a step in which the parsing of some upload fails
ParseFailure == \E i \in 1..Len(parsing) : parseError(i)

\* C14: when the parser reports an error for an upload, no result is made: the
\* history and the current result stay as they were, no result id is used, no
\* insight call starts, and the loading flag is false afterwards.
C14_FailedUploadLeavesNothing ==
    [][ParseFailure =>
          /\ history' = history
          /\ data' = data
          /\ nextId' = nextId
          /\ aiCalls' = aiCalls
          /\ ~loading']_vars

\* an upload has failed: the page shows no result and is not loading
C14_Witness ==
    /\ alerts > 0
    /\ data = Null
    /\ ~loading
    /\ Len(parsing) = 0

\* ------------------------------------------------------------ stored results
\* the results the page holds: the history entries and the current result
Held(d, h) == {h[j] : j \in 1..Len(h)} \cup (IF d = Null THEN {} ELSE {d})

\* C17: a stored result changes only by receiving an insight. A step of the
\* filter or configuration controls leaves the current result and the history
\* as they were (the filtered view is computed beside them); a step that
\* resolves an insight call leaves every field but aiInsight of every result
\* as it was, and leaves results with another id untouched; and over any step
\* a result that is still held afterwards under the same id differs from
\* the one held before in aiInsight at most.
C17_ResultsAreFrozen ==
    [][/\ FilterStep => data' = data /\ history' = history
       /\ \A id \in BagToSet(aiCalls) : \A response \in Responses :
             handleAIAnalysisResolved(id, response) =>
               /\ SansInsight(data') = SansInsight(data)
               /\ Len(history') = Len(history)
               /\ \A j \in 1..Len(history) :
                     /\ SansInsight(history'[j]) = SansInsight(history[j])
                     /\ history[j].id # id => history'[j] = history[j]
       /\ \A r \in Held(data, history) : \A q \in Held(data', history') :
             q.id = r.id => SansInsight(q) = SansInsight(r)]_vars

\* a result with an insight is current under a filter that hides one of its
\* videos, and the history holds it whole
C17_Witness ==
    /\ data # Null
    /\ data.aiInsight # Null
    /\ hideLowEarnings
    /\ Len(filteredData.videoEarnings) < Len(data.videoEarnings)
    /\ \E j \in 1..Len(history) : history[j] = data

\* --------------------------------------------------------------- visibility
\* the base totals of the label summaries named label
BaseTotals(label) ==
    {data.labelSummaries[i].totalEarning :
        i \in {j \in 1..Len(data.labelSummaries) : data.labelSummaries[j].label = label}}

\* the four conditions under which video v of the base result is shown
Visible(v) ==
    /\ Includes(selectedLabels, v.label)
    /\ hideLowEarningLabels => \E t \in BaseTotals(v.label) : t >= One
    /\ selectedHashtags # <<>> =>
          \E i \in 1..Len(selectedHashtags) : Includes(v.hashtags, selectedHashtags[i])
    /\ hideLowEarnings => v.totalEarning >= One

\* C18: a video of the base result is among the filtered videos exactly when
\* its label is selected, its label's base total is at least 1 if low labels
\* are hidden, it carries at least one selected hashtag if any is selected, and
\* its total is at least 1 if low videos are hidden; the filtered videos are
\* videos of the base result; a video worth exactly 1 passes the low-video
\* condition.
C18_VisibleExactly ==
    data # Null =>
        /\ \A i \in 1..Len(data.videoEarnings) :
              Includes(filteredData.videoEarnings, data.videoEarnings[i])
                  <=> Visible(data.videoEarnings[i])
        /\ \A i \in 1..Len(filteredData.videoEarnings) :
              Includes(data.videoEarnings, filteredData.videoEarnings[i])

\* with low videos hidden and two hashtags selected, a video worth exactly 1
\* that carries only one of the two is shown
C18_Witness ==
    /\ data # Null
    /\ hideLowEarnings
    /\ Len(selectedHashtags) = 2
    /\ \E i \in 1..Len(filteredData.videoEarnings) :
          /\ filteredData.videoEarnings[i].totalEarning = One
          /\ \E j \in 1..2 :
                ~Includes(filteredData.videoEarnings[i].hashtags, selectedHashtags[j])

\* ----------------------------------------------------------------- hashtags
\* the description cell extractHashtags receives from a row
DescriptionOf(row) ==
    OrElse(OrElse(Cell(row, ColDescEN), Cell(row, ColDescVN)), Str(<<>>)).s

\* the letters in their two cases
CasePairs == {<<"a", "A">>, <<"b", "B">>, <<"c", "C">>, <<"d", "D">>, <<"x", "X">>}

\* texts a and b differ in letter case at most
SameButCase(a, b) ==
    /\ Len(a) = Len(b)
    /\ \A i \in 1..Len(a) :
          a[i] = b[i] \/ <<a[i], b[i]>> \in CasePairs \/ <<b[i], a[i]>> \in CasePairs

\* the position of the first token that is tag but for its case
FirstAt(tokens, tag) ==
    CHOOSE k \in 1..Len(tokens) :
        /\ SameButCase(tag, tokens[k])
        /\ \A l \in 1..(k - 1) : ~SameButCase(tag, tokens[l])

\* tags is what the claim states for a text with the hashtag tokens tokens
AsStated(tokens, tags) ==
    /\ \A i \in 1..Len(tags) : \A c \in 1..Len(tags[i]) :
          \A p \in CasePairs : tags[i][c] # p[2]
    /\ \A i \in 1..Len(tags) : \E k \in 1..Len(tokens) : SameButCase(tags[i], tokens[k])
    /\ \A k \in 1..Len(tokens) :
          Cardinality({i \in 1..Len(tags) : SameButCase(tags[i], tokens[k])}) = 1
    /\ \A i \in 1..Len(tags) : \A j \in (i + 1)..Len(tags) :
          FirstAt(tokens, tags[i]) < FirstAt(tokens, tags[j])

\* C16: the hashtags extracted from a description are its hashtag tokens in
\* lower case, each once, in the order of their first occurrence: tokens that
\* differ in letter case only give one entry, at the place of the first, and
\* an empty or absent description gives no hashtag.
C16_LowerOnceInOrder ==
    data # Null =>
        \A f \in disk :
            /\ Len(data.videoEarnings) = 1
            /\ AsStated(HashtagMatches(DescriptionOf(f.data[1])),
                        data.videoEarnings[1].hashtags)
            /\ DescriptionOf(f.data[1]) = <<>> => data.videoEarnings[1].hashtags = <<>>

\* "#A #a#b" has given <<"#a", "#b">>
C16_Witness ==
    /\ data # Null
    /\ \E f \in disk :
          DescriptionOf(f.data[1]) = <<"#", "A", " ", "#", "a", "#", "b">>
    /\ data.videoEarnings[1].hashtags = << <<"#", "a">>, <<"#", "b">> >>

\* -------------------------------------------------------------- identifiers
\* the header has one of the identifier columns
HasIdentifierColumn(fields) ==
    \E i \in 1..Len(fields) : fields[i] \in {ColPostId, ColAssetEN, ColAssetVN}

\* C15: the warnings of a result name the identifier columns exactly when the
\* header of its file has none of them (so do the warnings the page shows);
\* such a file still gives a result, with a video for each titled row's key,
\* and no video of it has an assetId.
C15_IdentifierWarning ==
    data # Null =>
        \A f \in disk :
            /\ Includes(data.missingColumns, "Post ID / ID tai san video")
                  <=> ~HasIdentifierColumn(f.fields)
            /\ missingColumns = data.missingColumns
            /\ ~HasIdentifierColumn(f.fields) =>
                  /\ Len(data.videoEarnings) > 0 <=> TitledRows(f) # <<>>
                  /\ \A i \in 1..Len(data.videoEarnings) :
                        data.videoEarnings[i].assetId = Undefined

\* a file without identifier columns has given a result with two videos
C15_Witness ==
    /\ data # Null
    /\ \E f \in disk : ~HasIdentifierColumn(f.fields)
    /\ Len(data.videoEarnings) = 2
    /\ Includes(missingColumns, "Post ID / ID tai san video")

\* the identifiers of the rows of a file that go into video v, in input order
IdsOf(f, v) ==
    [i \in 1..Len(SelectSeq(TitledRows(f), LAMBDA row : PairOf(row) = <<v.title, v.label>>))
        |-> NormalizedRow(SelectSeq(TitledRows(f),
                LAMBDA row : PairOf(row) = <<v.title, v.label>>)[i]).assetId]

\* the first non-empty identifier of ids, undefined when there is none
FirstIdentifier(ids) ==
    IF SelectSeq(ids, Truthy) = <<>> THEN Undefined ELSE Head(SelectSeq(ids, Truthy))

TopMarked == {i \in 1..Len(efficiencies) : isTopEfficiency(i)}

\* C19: at most one label of the filtered result holds the "highest
\* efficiency" marker, and a label that holds it is the first, in the order of
\* the table, among the labels whose efficiency is the maximum.
C19_SingleTop ==
    data # Null =>
        /\ Cardinality(TopMarked) <= 1
        /\ \A i \in TopMarked : \A j \in 1..(i - 1) : efficiencies[j] # maxEfficiency

\* -------------------------------------------------------------------- dates
\* the rows of a file that go into video v, in input order
RowsOf(f, v) ==
    SelectSeq(TitledRows(f), LAMBDA row : PairOf(row) = <<v.title, v.label>>)

\* C21: the date of a video is the date text of the first row of its (title,
\* label) key; later rows of the key do not change it, also when the first row
\* had no date and a later one has.
C21_DateOfFirstRow ==
    data # Null =>
        \A f \in disk : \A i \in 1..Len(data.videoEarnings) :
            data.videoEarnings[i].date
                = NormalizedRow(RowsOf(f, data.videoEarnings[i])[1]).dateStr

\* a video whose first row had no date and whose second row has one is undated
C21_Witness ==
    /\ data # Null
    /\ \E f \in disk : \E i \in 1..Len(data.videoEarnings) :
          /\ Len(RowsOf(f, data.videoEarnings[i])) > 1
          /\ ~Truthy(NormalizedRow(RowsOf(f, data.videoEarnings[i])[1]).dateStr)
          /\ Truthy(NormalizedRow(RowsOf(f, data.videoEarnings[i])[2]).dateStr)
          /\ ~Truthy(data.videoEarnings[i].date)

\* the parseable dates of the rows of a file, titled or not
ParseableDates(f) ==
    {DateTime(NormalizedRow(f.data[i]).dateStr.s).t :
        i \in {j \in 1..Len(f.data) :
                 /\ Truthy(NormalizedRow(f.data[j]).dateStr)
                 /\ ~DateTime(NormalizedRow(f.data[j]).dateStr.s).nan}}

\* C22: startDate and endDate are both absent when no row of the file has a
\* parseable date; otherwise both are present and are the least and the
\* greatest parseable date over all rows, the rows without a title included.
C22_DateBounds ==
    data # Null =>
        \A f \in disk :
            IF ParseableDates(f) = {}
            THEN data.startDate = Undefined /\ data.endDate = Undefined
            ELSE /\ \E t \in ParseableDates(f) :
                      /\ \A u \in ParseableDates(f) : t <= u
                      /\ data.startDate = Str(formatDate(t))
                 /\ \E t \in ParseableDates(f) :
                      /\ \A u \in ParseableDates(f) : t >= u
                      /\ data.endDate = Str(formatDate(t))

\* the earliest date of a result with a video is that of a row without title
C22_Witness ==
    /\ data # Null
    /\ Len(data.videoEarnings) > 0
    /\ data.startDate = Str(<<"2", "8", "/", "1", "2", "/", "2", "0", "2", "3">>)
    /\ data.endDate = Str(<<"5", "/", "1", "/", "2", "0", "2", "4">>)

\* -------------------------------------------------------------------- order
\* seq runs by non-increasing totalEarning
NonIncreasing(seq) ==
    \A i \in 1..(Len(seq) - 1) : seq[i].totalEarning >= seq[i + 1].totalEarning

\* the place among rows of the first row of the pair (title, label)
FirstOfPair(rows, title, label) ==
    CHOOSE k \in 1..Len(rows) :
        /\ PairOf(rows[k]) = <<title, label>>
        /\ \A l \in 1..(k - 1) : PairOf(rows[l]) # <<title, label>>

\* the place among rows of the first row under the label
FirstOfLabel(rows, label) ==
    CHOOSE k \in 1..Len(rows) :
        /\ PairOf(rows[k])[2] = label
        /\ \A l \in 1..(k - 1) : PairOf(rows[l])[2] # label

\* videos with equal totals stand in the order of their first rows
VideoTiesAsSeen(videos, rows) ==
    \A i \in 1..Len(videos) : \A j \in (i + 1)..Len(videos) :
        videos[i].totalEarning = videos[j].totalEarning
        => FirstOfPair(rows, videos[i].title, videos[i].label)
             < FirstOfPair(rows, videos[j].title, videos[j].label)

\* label summaries with equal totals stand in the order of their first rows
LabelTiesAsSeen(labels, rows) ==
    \A i \in 1..Len(labels) : \A j \in (i + 1)..Len(labels) :
        labels[i].totalEarning = labels[j].totalEarning
        => FirstOfLabel(rows, labels[i].label) < FirstOfLabel(rows, labels[j].label)

\* both lists of a result run by non-increasing totalEarning
BothNonIncreasing(r) ==
    NonIncreasing(r.videoEarnings) /\ NonIncreasing(r.labelSummaries)

\* C23: the videos and the label summaries of the base result and of the
\* filtered result run by non-increasing totalEarning, and in the base result
\* entries with equal totalEarning stand in the order in which their keys
\* first occur in the file.
C23_SortedStable ==
    data # Null =>
        /\ BothNonIncreasing(data)
        /\ BothNonIncreasing(filteredData)
        /\ \A f \in disk :
              /\ VideoTiesAsSeen(data.videoEarnings, TitledRows(f))
              /\ LabelTiesAsSeen(data.labelSummaries, TitledRows(f))

\* two videos tie, two labels tie, and the filter hides part of the result
C23_Witness ==
    /\ data # Null
    /\ \E i \in 1..(Len(data.videoEarnings) - 1) :
          data.videoEarnings[i].totalEarning = data.videoEarnings[i + 1].totalEarning
    /\ \E i \in 1..(Len(data.labelSummaries) - 1) :
          data.labelSummaries[i].totalEarning = data.labelSummaries[i + 1].totalEarning
    /\ filteredData.videoEarnings # <<>>
    /\ Len(filteredData.videoEarnings) < Len(data.videoEarnings)

\* ------------------------------------------------------------- low earnings
\* the places of the videos of a result that are worth less than 1
BelowOne(r) == {i \in 1..Len(r.videoEarnings) : r.videoEarnings[i].totalEarning < One}

\* the places of the videos of a result that are worth exactly 1
ExactlyOne(r) == {i \in 1..Len(r.videoEarnings) : r.videoEarnings[i].totalEarning = One}

\* lowEarningCount of r counts its videos below 1, and none worth exactly 1
LowCountOf(r) ==
    /\ r.lowEarningCount = Cardinality(BelowOne(r))
    /\ r.lowEarningCount + Cardinality(ExactlyOne(r)) <= Len(r.videoEarnings)

\* C24: lowEarningCount of the base result and of the filtered result is the
\* number of videos of that same result worth strictly less than 1; a video
\* worth exactly 1 is not counted.
C24_LowCountMatches == data # Null => LowCountOf(data) /\ LowCountOf(filteredData)

\* the filter hides a low video of a result and keeps one worth exactly 1
C24_Witness ==
    /\ data # Null
    /\ data.lowEarningCount = 1
    /\ filteredData.lowEarningCount = 0
    /\ ExactlyOne(filteredData) # {}
    /\ Len(data.videoEarnings) = 3

\* ------------------------------------------------------------ late insights
\* the ids of the results the page holds
HeldIds == {r.id : r \in Held(data, history)}

\* C25: when an insight call resolves for an id that no history entry has and
\* that is not the id of the current result, the history and the current
\* result stay exactly as they were, and the call ends like any other: it
\* leaves the calls in flight and the loading flag is cleared.
C25_LateInsightIsDropped ==
    [][\A id \in BagToSet(aiCalls) \ HeldIds : \A response \in Responses :
          handleAIAnalysisResolved(id, response) =>
            /\ history' = history
            /\ data' = data
            /\ aiCalls' = aiCalls (-) SetToBag({id})
            /\ ~isAiLoading']_vars

\* the call for the last stored result has resolved after an upload evicted
\* that result: no result holds an insight, the upload's call is in flight
C25_Witness ==
    /\ requests = 2
    /\ BagCardinality(aiCalls) = 1
    /\ ~isAiLoading
    /\ Len(history) = HistoryKept + 1
    /\ history[1].id = 1
    /\ \A r \in Held(data, history) : r.aiInsight = Null

\* -------------------------------------------------------------------- tiers
\* the mean of the numbers es: their sum, added up in order as numbers, over
\* their count, to the nearest number
MeanOf(es) == FRatio(SumNumbers(es, 0), Len(es))

\* the tier stated for efficiency e against the mean: above 1.5 times the
\* mean, above the mean, or neither
StatedTier(e, mean) ==
    CASE e > FRatio(3 * mean, 2) -> "Xuat sac"
      [] e <= FRatio(3 * mean, 2) /\ e > mean -> "Tot"
      [] OTHER -> "Trung binh"

\* the efficiency stated for a label summary is its total over its count
StatedEfficiency(l, e) ==
    IF l.videoCount = 0 THEN e = 0
    ELSE e = FRatio(l.totalEarning * Pow(2, QuotientBits), l.videoCount)

\* the labels have the efficiencies es, avg is the mean of es, and each
\* efficiency has the tier stated for it against that mean
TiersAsStated(labels, es, avg) ==
    /\ Len(es) = Len(labels)
    /\ Len(es) > 0 => avg = MeanOf(es)
    /\ \A i \in 1..Len(es) :
          /\ StatedEfficiency(labels[i], es[i])
          /\ EfficiencyTier(es[i], avg) = StatedTier(es[i], MeanOf(es))

\* C26: every label of the filtered result has the efficiency totalEarning /
\* videoCount (0 for no video) and the tier its efficiency has against the
\* mean efficiency of the labels shown: top above 1.5 times the mean, else
\* middle above the mean, else baseline.
C26_TiersByMean ==
    data # Null =>
        TiersAsStated(filteredData.labelSummaries, efficiencies, avgEfficiency)

\* the tiers the efficiencies es have against their mean
TiersShown(es, avg) == {EfficiencyTier(es[i], avg) : i \in 1..Len(es)}

\* the three tiers are shown at once
C26_Witness ==
    /\ data # Null
    /\ TiersShown(efficiencies, avgEfficiency) = {"Xuat sac", "Tot", "Trung binh"}

\* ------------------------------------------------------------ tag universe
\* the hashtags extracted from the descriptions of rows
TagsIn(rows) ==
    UNION {{extractHashtags(DescriptionOf(rows[i]))[k] :
               k \in 1..Len(extractHashtags(DescriptionOf(rows[i])))} :
           i \in 1..Len(rows)}

\* tags is in ascending order without a repeat and holds exactly the hashtags
\* of rows
UniverseOf(tags, rows) ==
    /\ \A i \in 1..(Len(tags) - 1) : StrLess(tags[i], tags[i + 1])
    /\ {tags[i] : i \in 1..Len(tags)} = TagsIn(rows)

\* C27 as stated: allHashtags is ascending, without duplicates, and holds a
\* hashtag exactly when the description of some row of the file has it.
C27_TagsOfAllRows ==
    data # Null => \A f \in disk : UniverseOf(data.allHashtags, f.data)

\* C27: allHashtags of a base result is ascending, without duplicates, and
\* holds a hashtag if and only if it was extracted from the description of at
\* least one row of the file that has a title.
C27_TagsOfTitledRows ==
    data # Null => \A f \in disk : UniverseOf(data.allHashtags, TitledRows(f))

\* a result whose hashtags were seen in another order than the ascending one
\* and whose file has a hashtag in a row without a title only
C27_Witness ==
    /\ data # Null
    /\ Len(data.allHashtags) > 1
    /\ \E i \in 1..Len(data.videoEarnings) :
          /\ Len(data.videoEarnings[i].hashtags) > 1
          /\ StrLess(data.videoEarnings[i].hashtags[2], data.videoEarnings[i].hashtags[1])
    /\ \E f \in disk : TagsIn(f.data) # TagsIn(TitledRows(f))

\* ----------------------------------------------------------- loading flag
\* C28: while at least one insight call is in flight, started and not yet
\* resolved, isAiLoading is true.
C28_LoadingWhileInFlight == aiCalls # EmptyBag => isAiLoading

\* ---------------------------------------------------------------- selections
\* every entry of a selection is among the names on offer
Within(selection, names) ==
    \A i \in 1..Len(selection) : \E j \in 1..Len(names) : selection[i] = names[j]

\* C29: while a result is current, every selected label is the label of one
\* of its label summaries and every selected hashtag is one of its
\* allHashtags, whatever uploads, parse completions, history clicks, toggles
\* and insight completions came before.
C29_SelectionsWithinResult ==
    data # Null =>
        /\ Within(selectedLabels, LabelNames(data.labelSummaries))
        /\ Within(selectedHashtags, data.allHashtags)

\* the uploaded result is shown with one of its hashtags and one of its two
\* labels selected, next to a stored result with other labels and no hashtag
C29_Witness ==
    /\ data # Null
    /\ data.id > 0
    /\ Len(selectedHashtags) = 1
    /\ Len(selectedLabels) = 1
    /\ Len(data.labelSummaries) = 2
    /\ \E j \in 1..Len(history) :
          /\ history[j].allHashtags = <<>>
          /\ ~Within(selectedLabels, LabelNames(history[j].labelSummaries))

\* ------------------------------------------------------- filtered coherence
\* every video of result r has a label that exactly one label summary of r
\* carries
LabelledOnce(r) ==
    \A i \in 1..Len(r.videoEarnings) :
        Cardinality({j \in 1..Len(r.labelSummaries) :
                        r.labelSummaries[j].label = r.videoEarnings[i].label}) = 1

\* grandTotal of result r is the sum of the totals of its videos
TotalOfVideos(r) == r.grandTotal = SumEarnings(r.videoEarnings, 0)

\* C30 as stated: in the filtered result every video has a label that
\* appears exactly once in labelSummaries, and grandTotal is the sum of the
\* totals of the videos.
C30_FilteredCoherent ==
    data # Null => LabelledOnce(filteredData) /\ TotalOfVideos(filteredData)

\* r is coherent for a base result read from file f
CoherentFor(r, f) == LabelledOnce(r) /\ (NoRounding(f) => TotalOfVideos(r))

\* C30: in the filtered result every video has a label that appears exactly
\* once in labelSummaries, and, when the amounts of the file add up without
\* rounding, grandTotal is the sum of the totals of the videos.
C30_FilteredCoherentExact ==
    data # Null => \A f \in disk : CoherentFor(filteredData, f)

\* the filter leaves some of the videos, under several labels, of a file
\* whose amounts add up without rounding
FilteredPart(r, d, f) ==
    /\ NoRounding(f)
    /\ Len(r.videoEarnings) < Len(d.videoEarnings)
    /\ Len(r.videoEarnings) > 1
    /\ Len(r.labelSummaries) > 1
    /\ r.grandTotal # 0

C30_Witness == data # Null /\ \E f \in disk : FilteredPart(filteredData, data, f)

====
